---- MODULE Spec2Model ----
(***************************************************************************)
(* Model of the Slack MCP gateway of src/src/index.ts: the directory       *)
(* cache built by loadCache, resolveChannelId, the five tool handlers and  *)
(* the CallToolRequestSchema dispatcher, the channels resource, and        *)
(* start().                                                                *)
(*                                                                         *)
(* JavaScript strings are sequences of one-character strings, so that      *)
(* startsWith, split, replace and concatenation are computed, not assumed. *)
(* A JavaScript Map is a sequence of [k, v] entries in insertion order.    *)
(***************************************************************************)
EXTENDS Integers, Sequences, FiniteSets, TLC

VARIABLES
    SLACK_MCP_ADD_MESSAGE_TOOL, \* process.env.SLACK_MCP_ADD_MESSAGE_TOOL
    remoteChannels,  \* what the remote conversations.list will list, in order
    remoteUsers,     \* what the remote users.list will list, in order
    phase,           \* position of start(): auth, channels, users, loaded, serving, exited
    connected,       \* server.connect(transport) has completed
    cursor,          \* the local variable cursor of loadCache
    pages,           \* the listing requests loadCache has awaited, with their answers
    workspace,       \* this.workspace
    channelsById,    \* this.channelsById
    channelsByName,  \* this.channelsByName
    usersById,       \* this.usersById
    usersByName,     \* this.usersByName
    call,            \* the tool call being served, or the last one served
    inflight         \* the tool calls of a client that does not wait, by request id

vars == <<SLACK_MCP_ADD_MESSAGE_TOOL, remoteChannels, remoteUsers, phase,
          connected, cursor, pages, workspace, channelsById, channelsByName,
          usersById, usersByName, call, inflight>>

cacheVars == <<workspace, channelsById, channelsByName, usersById, usersByName>>
envVars == <<SLACK_MCP_ADD_MESSAGE_TOOL, remoteChannels, remoteUsers>>

(***************************************************************************)
(* Bounds of the model.                                                    *)
(***************************************************************************)
\* longest channel directory the remote holds
MaxChannels == 2
\* longest user directory the remote holds
MaxUsers == 1
\* most records the remote puts on one page
MaxPageLen == 1
\* longest free text (topic, purpose, message text) of the rendering check
MaxTextLen == 3
\* longest user directory of the workspace with many members
MaxMembers == 3

(***************************************************************************)
(* JavaScript values.                                                      *)
(***************************************************************************)
\* the value undefined; no string is equal to it
Undefined == <<"undefined">>
\* the empty string
EmptyStr == <<>>

\* x is falsy (undefined or ""), as in `x || d`, `if (x)`, `while (x)`
Falsy(x) == x = Undefined \/ x = EmptyStr

\* x || d for strings
OrElse(x, d) == IF Falsy(x) THEN d ELSE x

\* String.prototype.startsWith for a string s
StartsWith(s, p) ==
    /\ Len(s) >= Len(p)
    /\ SubSeq(s, 1, Len(p)) = p

\* index of the first occurrence of character c in s, 0 when there is none
RECURSIVE IndexOfFrom(_, _, _)
IndexOfFrom(s, c, i) ==
    IF i > Len(s) THEN 0
    ELSE IF s[i] = c THEN i
    ELSE IndexOfFrom(s, c, i + 1)

IndexOf(s, c) == IndexOfFrom(s, c, 1)

\* String.prototype.split(c) for a one-character separator
RECURSIVE Split(_, _)
Split(s, c) ==
    LET i == IndexOf(s, c) IN
    IF i = 0 THEN <<s>>
    ELSE <<SubSeq(s, 1, i - 1)>> \o Split(SubSeq(s, i + 1, Len(s)), c)

\* Array.prototype.join(c)
RECURSIVE Join(_, _)
Join(parts, c) ==
    IF Len(parts) = 0 THEN EmptyStr
    ELSE IF Len(parts) = 1 THEN parts[1]
    ELSE parts[1] \o <<c>> \o Join(Tail(parts), c)

\* String.prototype.includes
Includes(s, sub) ==
    \E i \in 0..(Len(s) - Len(sub)) : SubSeq(s, i + 1, i + Len(sub)) = sub

\* String.prototype.replace(c, "") with a string pattern: the first occurrence only
RemoveFirst(s, c) ==
    LET i == IndexOf(s, c) IN
    IF i = 0 THEN s ELSE SubSeq(s, 1, i - 1) \o SubSeq(s, i + 1, Len(s))

Min(a, b) == IF a <= b THEN a ELSE b

(***************************************************************************)
(* JavaScript Map: entries in insertion order; set() of a present key      *)
(* replaces the value in place.                                            *)
(***************************************************************************)
MapHas(m, k) == \E i \in 1..Len(m) : m[i].k = k

MapIndex(m, k) == CHOOSE i \in 1..Len(m) : m[i].k = k

\* Map.prototype.get; Undefined when the key is absent
MapGet(m, k) == IF MapHas(m, k) THEN m[MapIndex(m, k)].v ELSE Undefined

\* Map.prototype.set
MapSet(m, k, v) ==
    IF MapHas(m, k)
    THEN [m EXCEPT ![MapIndex(m, k)] = [k |-> k, v |-> v]]
    ELSE Append(m, [k |-> k, v |-> v])

\* Array.from(m.values())
MapValues(m) == [i \in 1..Len(m) |-> m[i].v]

(***************************************************************************)
(* Configuration read from the environment.                                *)
(***************************************************************************)
\* process.env.SLACK_MCP_ADD_MESSAGE_TOOL === "true" || === "1"
AddMessageEnabled(env) ==
    \/ env = <<"t", "r", "u", "e">>
    \/ env = <<"1">>

ADD_MESSAGE_ENABLED == AddMessageEnabled(SLACK_MCP_ADD_MESSAGE_TOOL)

\* env?.startsWith("C") ? env.split(",") : null ; null is Undefined here
AllowedChannels(env) ==
    IF env # Undefined /\ StartsWith(env, <<"C">>)
    THEN Split(env, ",")
    ELSE Undefined

ALLOWED_CHANNELS == AllowedChannels(SLACK_MCP_ADD_MESSAGE_TOOL)

\* Array.prototype.includes on the allow-list
ListIncludes(list, x) == \E i \in 1..Len(list) : list[i] = x

(***************************************************************************)
(* The remote workspace: the records its listing endpoints return.         *)
(***************************************************************************)
C1 == <<"C", "1">>
C2 == <<"C", "2">>
G1 == <<"G", "1">>
C9 == <<"C", "9">>
D1 == <<"D", "1">>
U1 == <<"U", "1">>
B1 == <<"B", "1">>
U2 == <<"U", "2">>
U3 == <<"U", "3">>

\* channel objects conversations.list can return (name without the #)
RemoteChannelPool ==
    { [id |-> C1, name |-> <<"g">>, is_private |-> FALSE, is_im |-> FALSE,
       is_mpim |-> FALSE, topic |-> <<"t", "\"">>, purpose |-> Undefined,
       num_members |-> 3],
      [id |-> C2, name |-> <<"s">>, is_private |-> TRUE, is_im |-> FALSE,
       is_mpim |-> FALSE, topic |-> Undefined, purpose |-> <<"p">>,
       num_members |-> 0],
      [id |-> G1, name |-> <<"m">>, is_private |-> TRUE, is_im |-> FALSE,
       is_mpim |-> TRUE, topic |-> Undefined, purpose |-> Undefined,
       num_members |-> 2],
      \* the id C1 listed again under another name
      [id |-> C1, name |-> <<"h">>, is_private |-> FALSE, is_im |-> FALSE,
       is_mpim |-> FALSE, topic |-> Undefined, purpose |-> Undefined,
       num_members |-> 3] }

\* member objects users.list can return
RemoteUserPool ==
    { [id |-> U1, name |-> <<"a">>, real_name |-> <<"A">>, deleted |-> FALSE,
       is_bot |-> FALSE],
      [id |-> B1, name |-> <<"b">>, real_name |-> Undefined, deleted |-> FALSE,
       is_bot |-> TRUE],
      [id |-> U2, name |-> <<"d">>, real_name |-> Undefined, deleted |-> TRUE,
       is_bot |-> FALSE] }

\* the team auth.test answers with
RemoteTeams == {<<"T">>}

\* all sequences over S of length at most n
SeqsUpTo(S, n) == UNION { [1..k -> S] : k \in 0..n }

\* the opaque cursor the remote hands out for "continue after record n"
CursorAt(n) == [i \in 1..n |-> "c"]

\* the remote's answer to a listing request: the page that starts where the
\* cursor says, holding n records; has_next tells whether more remain
ListingPage(dir, cur, n) ==
    LET from == IF cur = Undefined THEN 0 ELSE Len(cur)
        to   == Min(from + n, Len(dir))
    IN  [items |-> SubSeq(dir, from + 1, to),
         more  |-> to < Len(dir),
         next  |-> CursorAt(to)]

(***************************************************************************)
(* loadCache                                                               *)
(***************************************************************************)
\* x || false for the boolean flags of a channel object is the identity on
\* booleans; the Channel built from a listed channel object
ToChannel(ch) ==
    [id |-> ch.id,
     name |-> <<"#">> \o ch.name,
     is_private |-> ch.is_private,
     is_im |-> ch.is_im,
     is_mpim |-> ch.is_mpim,
     topic |-> ch.topic,
     purpose |-> ch.purpose,
     num_members |-> ch.num_members]

\* the User built from a listed member object
ToUser(u) ==
    [id |-> u.id, name |-> u.name, real_name |-> OrElse(u.real_name, u.name)]

\* the for loop over result.channels: both tables are set for each channel
RECURSIVE InsertChannels(_, _)
InsertChannels(tables, items) ==
    IF items = <<>> THEN tables
    ELSE LET channel == ToChannel(Head(items)) IN
         InsertChannels(
            [byId   |-> MapSet(tables.byId, channel.id, channel),
             byName |-> MapSet(tables.byName, channel.name, channel)],
            Tail(items))

\* the for loop over result.members without `if (u.deleted || u.is_bot) continue`
RECURSIVE InsertUsers_NoSkip(_, _)
InsertUsers_NoSkip(tables, items) ==
    IF items = <<>> THEN tables
    ELSE LET user == ToUser(Head(items)) IN
         InsertUsers_NoSkip(
            [byId   |-> MapSet(tables.byId, user.id, user),
             byName |-> MapSet(tables.byName, <<"@">> \o user.name, user)],
            Tail(items))

\* the for loop over result.members: deleted and bot members are skipped
RECURSIVE InsertUsers(_, _)
InsertUsers(tables, items) ==
    IF items = <<>> THEN tables
    ELSE LET u == Head(items) IN
         IF u.deleted \/ u.is_bot THEN InsertUsers(tables, Tail(items))
         ELSE LET user == ToUser(u) IN
              InsertUsers(
                 [byId   |-> MapSet(tables.byId, user.id, user),
                  byName |-> MapSet(tables.byName, <<"@">> \o user.name, user)],
                 Tail(items))

(***************************************************************************)
(* Errors and results.                                                     *)
(***************************************************************************)
\* an Error message: a fixed text and the value interpolated into it
Msg(text, arg) == [text |-> text, arg |-> arg]

DM_AT_ERROR == Msg("Direct messages (@username) are not accessible for security reasons", EmptyStr)
DM_D_ERROR == Msg("Direct messages (D...) are not accessible for security reasons", EmptyStr)
DM_ERROR == Msg("Direct messages are not accessible for security reasons", EmptyStr)
NotFoundError(input) == Msg("Channel ${input} not found", input)
TYPE_ERROR == Msg("TypeError: cannot read startsWith of a value that is not a string", EmptyStr)
ARGS_TYPE_ERROR == Msg("TypeError: cannot read properties of undefined", EmptyStr)
DISABLED_ERROR == Msg("Message posting is disabled. Set SLACK_MCP_ADD_MESSAGE_TOOL=true or to a list of channel IDs.", EmptyStr)
NotAllowedError(channelId) == Msg("Posting to channel ${channelId} is not allowed.", channelId)
SlackApiError(code) == Msg("Slack API error: ${response.data.error}", code)
NETWORK_ERROR == Msg("AxiosError: request failed", EmptyStr)
UnknownToolError(name) == Msg("Unknown tool: ${name}", <<name>>)

SecurityErrors == {DM_AT_ERROR, DM_D_ERROR, DM_ERROR}

\* what a piece of handler code comes to: it throws, it awaits an upstream
\* request, or it returns a result
Throw(msg) == [kind |-> "throw", msg |-> msg]
Send(method, params) == [kind |-> "send", method |-> method, params |-> params]
Return(result) == [kind |-> "return", result |-> result]

NoText == Msg("", EmptyStr)

\* { content: [{ type: "text", text: csv }] } with the table before the join
TableResult(header, rows) ==
    [isError |-> FALSE, text |-> NoText, header |-> header, rows |-> rows]

\* { content: [{ type: "text", text }] }
TextResult(msg) == [isError |-> FALSE, text |-> msg, header |-> "", rows |-> <<>>]

\* { content: [{ type: "text", text: `Error: ${message}` }], isError: true }
ErrorResult(msg) == [isError |-> TRUE, text |-> msg, header |-> "", rows |-> <<>>]

(***************************************************************************)
(* Tool arguments. An arguments object is a record with given = TRUE; a    *)
(* request without arguments has given = FALSE. A number argument is <<>>  *)
(* when absent and <<n>> when present.                                     *)
(***************************************************************************)
NoArgs == [given |-> FALSE]

\* a channel argument that is not a string (a number)
NotAString == <<"number">>

\* Math.min(limit || dflt, cap)
ClampLimit(limit, dflt, cap) ==
    Min(IF limit = <<>> \/ limit[1] = 0 THEN dflt ELSE limit[1], cap)

\* (text || "").replace('"', '""'): a string pattern, so the first quote only
EscapeQuotes_FirstOnly(s) ==
    LET i == IndexOf(s, "\"") IN
    IF i = 0 THEN s
    ELSE SubSeq(s, 1, i) \o <<"\"">> \o SubSeq(s, i + 1, Len(s))

\* (text || "").replace(/"/g, '""')
RECURSIVE EscapeQuotes(_)
EscapeQuotes(s) ==
    IF s = <<>> THEN <<>>
    ELSE (IF Head(s) = "\"" THEN <<"\"", "\"">> ELSE <<Head(s)>>) \o EscapeQuotes(Tail(s))

\* `"${(text || "").replace(/"/g, '""')}"`
QuotedEscaped(text) == <<"\"">> \o EscapeQuotes(OrElse(text, EmptyStr)) \o <<"\"">>

\* `"${text}"`
Quoted(text) == <<"\"">> \o text \o <<"\"">>

(***************************************************************************)
(* slackApi: the upstream responses.                                       *)
(***************************************************************************)
NetworkError == [kind |-> "network_error"]
ApiError(code) == [kind |-> "data", data |-> [ok |-> FALSE, error |-> code]]
Ok(data) == [kind |-> "data", data |-> data]

\* slackApi after the await: throws on a rejected post and on ok: false,
\* otherwise goes on with response.data
SlackApi(resp, Then(_)) ==
    IF resp.kind = "network_error" THEN Throw(NETWORK_ERROR)
    ELSE IF ~resp.data.ok THEN Throw(SlackApiError(resp.data.error))
    ELSE Then(resp.data)

(***************************************************************************)
(* Security.                                                               *)
(***************************************************************************)
\* resolveChannelId without the cached-flag check of a raw id
ResolveChannelId_NoIdFlagCheck(input) ==
    IF input = Undefined \/ input = NotAString
        THEN [ok |-> FALSE, error |-> TYPE_ERROR]
    ELSE IF StartsWith(input, <<"@">>)
        THEN [ok |-> FALSE, error |-> DM_AT_ERROR]
    ELSE IF StartsWith(input, <<"D">>)
        THEN [ok |-> FALSE, error |-> DM_D_ERROR]
    ELSE IF StartsWith(input, <<"#">>)
        THEN IF ~MapHas(channelsByName, input)
                THEN [ok |-> FALSE, error |-> NotFoundError(input)]
             ELSE LET channel == MapGet(channelsByName, input) IN
                  IF channel.is_im \/ channel.is_mpim
                  THEN [ok |-> FALSE, error |-> DM_ERROR]
                  ELSE [ok |-> TRUE, id |-> channel.id]
    ELSE [ok |-> TRUE, id |-> input]

\* resolveChannelId looking a raw id up in the table of names
ResolveChannelId_RawIdByName(input) ==
    IF input = Undefined \/ input = NotAString
        THEN [ok |-> FALSE, error |-> TYPE_ERROR]
    ELSE IF StartsWith(input, <<"@">>)
        THEN [ok |-> FALSE, error |-> DM_AT_ERROR]
    ELSE IF StartsWith(input, <<"D">>)
        THEN [ok |-> FALSE, error |-> DM_D_ERROR]
    ELSE IF StartsWith(input, <<"#">>)
        THEN IF ~MapHas(channelsByName, input)
                THEN [ok |-> FALSE, error |-> NotFoundError(input)]
             ELSE LET channel == MapGet(channelsByName, input) IN
                  IF channel.is_im \/ channel.is_mpim
                  THEN [ok |-> FALSE, error |-> DM_ERROR]
                  ELSE [ok |-> TRUE, id |-> channel.id]
    ELSE IF ~MapHas(channelsByName, input)
        THEN [ok |-> FALSE, error |-> NotFoundError(input)]
    ELSE IF MapGet(channelsByName, input).is_im \/ MapGet(channelsByName, input).is_mpim
        THEN [ok |-> FALSE, error |-> DM_ERROR]
    ELSE [ok |-> TRUE, id |-> input]

\* resolveChannelId refusing a raw id the cache does not hold
ResolveChannelId_UnknownIdNotFound(input) ==
    IF input = Undefined \/ input = NotAString
        THEN [ok |-> FALSE, error |-> TYPE_ERROR]
    ELSE IF StartsWith(input, <<"@">>)
        THEN [ok |-> FALSE, error |-> DM_AT_ERROR]
    ELSE IF StartsWith(input, <<"D">>)
        THEN [ok |-> FALSE, error |-> DM_D_ERROR]
    ELSE IF StartsWith(input, <<"#">>)
        THEN IF ~MapHas(channelsByName, input)
                THEN [ok |-> FALSE, error |-> NotFoundError(input)]
             ELSE LET channel == MapGet(channelsByName, input) IN
                  IF channel.is_im \/ channel.is_mpim
                  THEN [ok |-> FALSE, error |-> DM_ERROR]
                  ELSE [ok |-> TRUE, id |-> channel.id]
    ELSE IF ~MapHas(channelsById, input)
        THEN [ok |-> FALSE, error |-> NotFoundError(input)]
    ELSE IF MapGet(channelsById, input).is_im \/ MapGet(channelsById, input).is_mpim
        THEN [ok |-> FALSE, error |-> DM_ERROR]
    ELSE [ok |-> TRUE, id |-> input]

\* resolveChannelId answering an unknown #name with the security rejection
ResolveChannelId_UnknownNameAsDm(input) ==
    IF input = Undefined \/ input = NotAString
        THEN [ok |-> FALSE, error |-> TYPE_ERROR]
    ELSE IF StartsWith(input, <<"@">>)
        THEN [ok |-> FALSE, error |-> DM_AT_ERROR]
    ELSE IF StartsWith(input, <<"D">>)
        THEN [ok |-> FALSE, error |-> DM_D_ERROR]
    ELSE IF StartsWith(input, <<"#">>)
        THEN IF ~MapHas(channelsByName, input)
                THEN [ok |-> FALSE, error |-> DM_ERROR]
             ELSE LET channel == MapGet(channelsByName, input) IN
                  IF channel.is_im \/ channel.is_mpim
                  THEN [ok |-> FALSE, error |-> DM_ERROR]
                  ELSE [ok |-> TRUE, id |-> channel.id]
    ELSE IF MapHas(channelsById, input)
            /\ (MapGet(channelsById, input).is_im \/ MapGet(channelsById, input).is_mpim)
        THEN [ok |-> FALSE, error |-> DM_ERROR]
    ELSE [ok |-> TRUE, id |-> input]

\* resolveChannelId: [ok |-> TRUE, id] or [ok |-> FALSE, error] when it throws
ResolveChannelId(input) ==
    IF input = Undefined \/ input = NotAString
        THEN [ok |-> FALSE, error |-> TYPE_ERROR]
    ELSE IF StartsWith(input, <<"@">>)
        THEN [ok |-> FALSE, error |-> DM_AT_ERROR]
    ELSE IF StartsWith(input, <<"D">>)
        THEN [ok |-> FALSE, error |-> DM_D_ERROR]
    ELSE IF StartsWith(input, <<"#">>)
        THEN IF ~MapHas(channelsByName, input)
                THEN [ok |-> FALSE, error |-> NotFoundError(input)]
             ELSE LET channel == MapGet(channelsByName, input) IN
                  IF channel.is_im \/ channel.is_mpim
                  THEN [ok |-> FALSE, error |-> DM_ERROR]
                  ELSE [ok |-> TRUE, id |-> channel.id]
    ELSE IF MapHas(channelsById, input)
            /\ (MapGet(channelsById, input).is_im \/ MapGet(channelsById, input).is_mpim)
        THEN [ok |-> FALSE, error |-> DM_ERROR]
    ELSE [ok |-> TRUE, id |-> input]

\* getUserName: user?.real_name || user?.name || userId
GetUserName(userId) ==
    IF MapHas(usersById, userId)
    THEN LET user == MapGet(usersById, userId) IN
         OrElse(user.real_name, OrElse(user.name, userId))
    ELSE userId

(***************************************************************************)
(* channels_list                                                           *)
(***************************************************************************)
PUBLIC_CHANNEL == <<"p", "u", "b", "l", "i", "c", "_", "c", "h", "a", "n", "n", "e", "l">>
PRIVATE_CHANNEL == <<"p", "r", "i", "v", "a", "t", "e", "_", "c", "h", "a", "n", "n", "e", "l">>
DEFAULT_TYPES == PUBLIC_CHANNEL \o <<",">> \o PRIVATE_CHANNEL

\* .filter(t => t === "public_channel" || t === "private_channel")
RECURSIVE FilterTypes(_)
FilterTypes(ts) ==
    IF ts = <<>> THEN <<>>
    ELSE (IF Head(ts) = PUBLIC_CHANNEL \/ Head(ts) = PRIVATE_CHANNEL
          THEN <<Head(ts)>> ELSE <<>>) \o FilterTypes(Tail(ts))

\* (args?.types || default).split(",").filter(...).join(",")
TypesOf(typesArg) == Join(FilterTypes(Split(OrElse(typesArg, DEFAULT_TYPES), ",")), ",")

\* the loop without `if (channel.is_im || channel.is_mpim) continue`
RECURSIVE ListLoop_NoDmSkip(_, _, _, _)
ListLoop_NoDmSkip(i, channels, types, limit) ==
    IF i > Len(channelsById) THEN channels
    ELSE LET channel == channelsById[i].v
             pushed ==
                IF Includes(types, PUBLIC_CHANNEL) /\ ~channel.is_private
                    THEN Append(channels, channel)
                ELSE IF Includes(types, PRIVATE_CHANNEL) /\ channel.is_private
                    THEN Append(channels, channel)
                ELSE channels
         IN  IF Len(pushed) >= limit THEN pushed
             ELSE ListLoop_NoDmSkip(i + 1, pushed, types, limit)

\* the loop without the filter by type
RECURSIVE ListLoop_NoTypeFilter(_, _, _, _)
ListLoop_NoTypeFilter(i, channels, types, limit) ==
    IF i > Len(channelsById) THEN channels
    ELSE LET channel == channelsById[i].v IN
         IF channel.is_im \/ channel.is_mpim
         THEN ListLoop_NoTypeFilter(i + 1, channels, types, limit)
         ELSE LET pushed == Append(channels, channel)
              IN  IF Len(pushed) >= limit THEN pushed
                  ELSE ListLoop_NoTypeFilter(i + 1, pushed, types, limit)

\* the for loop over this.channelsById from entry i on, channels collected so far
RECURSIVE ListLoop(_, _, _, _)
ListLoop(i, channels, types, limit) ==
    IF i > Len(channelsById) THEN channels
    ELSE LET channel == channelsById[i].v IN
         IF channel.is_im \/ channel.is_mpim
         THEN ListLoop(i + 1, channels, types, limit)
         ELSE LET pushed ==
                    IF Includes(types, PUBLIC_CHANNEL) /\ ~channel.is_private
                        THEN Append(channels, channel)
                    ELSE IF Includes(types, PRIVATE_CHANNEL) /\ channel.is_private
                        THEN Append(channels, channel)
                    ELSE channels
              IN  IF Len(pushed) >= limit THEN pushed
                  ELSE ListLoop(i + 1, pushed, types, limit)

\* one line of the channels table
ChannelRow(c) ==
    [id |-> c.id,
     name |-> c.name,
     topic |-> QuotedEscaped(c.topic),
     purpose |-> QuotedEscaped(c.purpose),
     members |-> c.num_members]   \* num_members || 0 of a number

CHANNELS_HEADER == "id,name,topic,purpose,members"

HandleChannelsList(args) ==
    LET types == TypesOf(IF args.given THEN args.types ELSE Undefined)
        limit == ClampLimit(IF args.given THEN args.limit ELSE <<>>, 100, 1000)
        channels == ListLoop(1, <<>>, types, limit)
    IN  Return(TableResult(CHANNELS_HEADER,
                           [i \in 1..Len(channels) |-> ChannelRow(channels[i])]))

(***************************************************************************)
(* conversations_history and conversations_replies                         *)
(***************************************************************************)
\* Number to decimal string, for `${r.name}:${r.count}`
DigitChar(d) == <<"0", "1", "2", "3", "4", "5", "6", "7", "8", "9">>[d + 1]

RECURSIVE NumToStr(_)
NumToStr(n) ==
    IF n < 10 THEN <<DigitChar(n)>>
    ELSE NumToStr(n \div 10) \o <<DigitChar(n % 10)>>

\* An array field of a response that may be absent: NoList when absent,
\* Some(list) when present
NoList == {}
Some(list) == {list}
\* x || []
ListOrEmpty(x) == IF x = NoList THEN <<>> ELSE CHOOSE list \in x : TRUE

\* m.reactions?.map(r => `${r.name}:${r.count}`).join("|")
ReactionsText(reactions) ==
    IF reactions = NoList THEN Undefined
    ELSE LET rs == ListOrEmpty(reactions) IN
         Join([i \in 1..Len(rs) |->
                  rs[i].name \o <<":">> \o NumToStr(rs[i].count)], "|")

\* the cursor of the last message set without looking at has_more
CursorColumn_IgnoresHasMore(data, i, n) ==
    IF i = n THEN OrElse(data.next_cursor, EmptyStr) ELSE EmptyStr

\* messages[messages.length - 1].cursor = next_cursor || "" when has_more
CursorColumn(data, i, n) ==
    IF i = n /\ data.has_more THEN OrElse(data.next_cursor, EmptyStr) ELSE EmptyStr

\* result.messages || []
MessagesOf(data) == ListOrEmpty(data.messages)

HISTORY_HEADER == "ts,user,text,thread_ts,reactions,cursor"

\* handleConversationsHistory after the await
HistoryTable(data) ==
    LET ms == MessagesOf(data) IN
    Return(TableResult(HISTORY_HEADER,
        [i \in 1..Len(ms) |->
            [ts |-> ms[i].ts,
             user |-> Quoted(GetUserName(OrElse(ms[i].user, EmptyStr))),
             text |-> QuotedEscaped(ms[i].text),
             thread_ts |-> OrElse(ms[i].thread_ts, EmptyStr),
             reactions |-> Quoted(OrElse(ReactionsText(ms[i].reactions), EmptyStr)),
             cursor |-> CursorColumn(data, i, Len(ms))]]))

\* handleConversationsHistory up to the await
HandleConversationsHistory(args) ==
    IF ~args.given THEN Throw(ARGS_TYPE_ERROR)
    ELSE LET r == ResolveChannelId(args.channel_id) IN
         IF ~r.ok THEN Throw(r.error)
         ELSE Send("conversations.history",
                   [channel |-> r.id,
                    limit |-> ClampLimit(args.limit, 50, 100),
                    cursor |-> args.cursor])

REPLIES_HEADER == "ts,user,text,cursor"

\* handleConversationsReplies after the await
RepliesTable(data) ==
    LET ms == MessagesOf(data) IN
    Return(TableResult(REPLIES_HEADER,
        [i \in 1..Len(ms) |->
            [ts |-> ms[i].ts,
             user |-> Quoted(GetUserName(OrElse(ms[i].user, EmptyStr))),
             text |-> QuotedEscaped(ms[i].text),
             cursor |-> CursorColumn(data, i, Len(ms))]]))

\* handleConversationsReplies up to the await
HandleConversationsReplies(args) ==
    IF ~args.given THEN Throw(ARGS_TYPE_ERROR)
    ELSE LET r == ResolveChannelId(args.channel_id) IN
         IF ~r.ok THEN Throw(r.error)
         ELSE Send("conversations.replies",
                   [channel |-> r.id,
                    ts |-> args.thread_ts,
                    limit |-> ClampLimit(args.limit, 50, 100),
                    cursor |-> args.cursor])

(***************************************************************************)
(* conversations_search                                                    *)
(***************************************************************************)
\* the string a value becomes when += appends to it
UNDEFINED_TEXT == <<"u", "n", "d", "e", "f", "i", "n", "e", "d">>

\* query += clause
PlusEq(query, clause) == (IF query = Undefined THEN UNDEFINED_TEXT ELSE query) \o clause

IN_CLAUSE == <<" ", "i", "n", ":">>
FROM_CLAUSE == <<" ", "f", "r", "o", "m", ":">>

\* the channel filter: query after `if (args.channel) { ... }`, given the
\* resolved id
WithChannelClause(query, channelId) ==
    IF MapHas(channelsById, channelId)
    THEN PlusEq(query, IN_CLAUSE \o RemoveFirst(MapGet(channelsById, channelId).name, "#"))
    ELSE query

\* the user filter: query after `if (args.from_user) { ... }`
WithUserClause(query, from_user) ==
    IF Falsy(from_user) THEN query
    ELSE LET userName ==
                IF StartsWith(from_user, <<"@">>) THEN Tail(from_user)
                ELSE IF MapHas(usersById, from_user)
                     THEN OrElse(MapGet(usersById, from_user).name, from_user)
                     ELSE from_user
         IN  PlusEq(query, FROM_CLAUSE \o userName)

\* handleConversationsSearch up to the await
HandleConversationsSearch(args) ==
    IF ~args.given THEN Throw(ARGS_TYPE_ERROR)
    ELSE IF Falsy(args.channel)
         THEN Send("search.messages",
                   [query |-> WithUserClause(args.query, args.from_user),
                    count |-> ClampLimit(args.limit, 20, 100)])
         ELSE LET r == ResolveChannelId(args.channel) IN
              IF ~r.ok THEN Throw(r.error)
              ELSE Send("search.messages",
                        [query |-> WithUserClause(
                                      WithChannelClause(args.query, r.id),
                                      args.from_user),
                         count |-> ClampLimit(args.limit, 20, 100)])

SEARCH_HEADER == "ts,channel,user,text"

\* result.messages?.matches || []
MatchesOf(data) == ListOrEmpty(data.matches)

\* handleConversationsSearch after the await
SearchTable(data) ==
    LET ms == MatchesOf(data) IN
    Return(TableResult(SEARCH_HEADER,
        [i \in 1..Len(ms) |->
            [ts |-> ms[i].ts,
             channel |-> Quoted(<<"#">> \o OrElse(ms[i].channel.name,
                                    <<"u", "n", "k", "n", "o", "w", "n">>)),
             user |-> Quoted(OrElse(ms[i].user, OrElse(ms[i].username, EmptyStr))),
             text |-> QuotedEscaped(ms[i].text)]]))

(***************************************************************************)
(* conversations_add_message                                               *)
(***************************************************************************)
\* handleAddMessage without the check that posting is enabled
HandleAddMessage_NoEnabledCheck(args) ==
    IF ~args.given THEN Throw(ARGS_TYPE_ERROR)
    ELSE LET r == ResolveChannelId(args.channel_id) IN
         IF ~r.ok THEN Throw(r.error)
         ELSE IF ALLOWED_CHANNELS # Undefined /\ ~ListIncludes(ALLOWED_CHANNELS, r.id)
              THEN Throw(NotAllowedError(r.id))
         ELSE Send("chat.postMessage",
                   [channel |-> r.id,
                    text |-> args.text,
                    thread_ts |-> args.thread_ts,
                    mrkdwn |-> TRUE])

\* handleAddMessage without the allow-list check
HandleAddMessage_NoAllowListCheck(args) ==
    IF ~ADD_MESSAGE_ENABLED /\ ALLOWED_CHANNELS = Undefined
        THEN Throw(DISABLED_ERROR)
    ELSE IF ~args.given THEN Throw(ARGS_TYPE_ERROR)
    ELSE LET r == ResolveChannelId(args.channel_id) IN
         IF ~r.ok THEN Throw(r.error)
         ELSE Send("chat.postMessage",
                   [channel |-> r.id,
                    text |-> args.text,
                    thread_ts |-> args.thread_ts,
                    mrkdwn |-> TRUE])

\* handleAddMessage up to the await
HandleAddMessage(args) ==
    IF ~ADD_MESSAGE_ENABLED /\ ALLOWED_CHANNELS = Undefined
        THEN Throw(DISABLED_ERROR)
    ELSE IF ~args.given THEN Throw(ARGS_TYPE_ERROR)
    ELSE LET r == ResolveChannelId(args.channel_id) IN
         IF ~r.ok THEN Throw(r.error)
         ELSE IF ALLOWED_CHANNELS # Undefined /\ ~ListIncludes(ALLOWED_CHANNELS, r.id)
              THEN Throw(NotAllowedError(r.id))
         ELSE Send("chat.postMessage",
                   [channel |-> r.id,
                    text |-> args.text,
                    thread_ts |-> args.thread_ts,
                    mrkdwn |-> TRUE])

\* handleAddMessage after the await
PostedText(data) ==
    Return(TextResult(Msg("Message posted: ts=${result.ts}, channel=${result.channel}",
                          data.ts \o <<",">> \o data.channel)))

(***************************************************************************)
(* Tool calls: the inputs and the upstream answers the model draws from.   *)
(***************************************************************************)
ToolNames ==
    {"channels_list", "conversations_history", "conversations_replies",
     "conversations_search", "conversations_add_message", "no_such_tool"}

\* channel arguments: absent, not a string, @handle, D id, #names, raw ids
Targets ==
    {Undefined, NotAString, <<"@", "a">>, D1, <<"#", "g">>, <<"#", "m">>, C1, G1}

\* limit arguments of the tools that send the limit upstream
Limits == {<<>>, <<0>>, <<-1>>, <<101>>}

\* limit arguments of channels_list
ListLimits == {<<>>, <<0>>, <<-1>>, <<1>>, <<1001>>}

TypesArgs ==
    {Undefined, PUBLIC_CHANNEL, PRIVATE_CHANNEL,
     <<"i", "m">> \o <<",">> \o PRIVATE_CHANNEL, <<"m", "p", "i", "m">>}

ArgsFor(name) ==
    {NoArgs} \cup
    CASE name = "channels_list" ->
            [given : {TRUE}, types : TypesArgs, limit : ListLimits,
             channel_id : {Undefined, D1}]
      [] name = "conversations_history" ->
            [given : {TRUE}, channel_id : Targets, limit : Limits,
             cursor : {Undefined, <<"n">>}]
      [] name = "conversations_replies" ->
            [given : {TRUE}, channel_id : Targets, thread_ts : {Undefined, <<"1">>},
             limit : Limits, cursor : {Undefined, <<"n">>}]
      [] name = "conversations_search" ->
            [given : {TRUE}, query : {Undefined, <<"q">>},
             channel : Targets \cup {EmptyStr},
             from_user : {Undefined, <<"@", "a">>, U1}, limit : Limits]
      [] name = "conversations_add_message" ->
            [given : {TRUE}, channel_id : Targets, text : {Undefined, <<"x">>},
             thread_ts : {Undefined, <<"1">>}]
      [] OTHER -> {}

\* message objects of conversations.history and conversations.replies
M1 == [ts |-> <<"1">>, user |-> U1, text |-> <<"h", "\"">>, thread_ts |-> Undefined,
       reactions |-> NoList]
M2 == [ts |-> <<"2">>, user |-> B1, text |-> Undefined, thread_ts |-> <<"1">>,
       reactions |-> Some(<<[name |-> <<"x">>, count |-> 12]>>)]

\* response.data of a successful conversations.history / conversations.replies;
\* next_cursor is response_metadata?.next_cursor
HistoryData ==
    { [ok |-> TRUE, messages |-> NoList, has_more |-> FALSE, next_cursor |-> Undefined],
      [ok |-> TRUE, messages |-> Some(<<M1>>), has_more |-> FALSE, next_cursor |-> EmptyStr],
      [ok |-> TRUE, messages |-> Some(<<M1, M2>>), has_more |-> TRUE, next_cursor |-> <<"n">>],
      [ok |-> TRUE, messages |-> Some(<<M1>>), has_more |-> FALSE, next_cursor |-> <<"n">>],
      [ok |-> TRUE, messages |-> Some(<<M1>>), has_more |-> TRUE, next_cursor |-> Undefined] }

\* match objects of search.messages: from a public channel, from a direct
\* message (named by the other user's id) and from a group direct message
MatchC1 == [ts |-> <<"1">>, user |-> U1, username |-> <<"a">>, text |-> <<"q">>,
            channel |-> [id |-> C1, name |-> <<"g">>, is_im |-> FALSE, is_mpim |-> FALSE]]
MatchD1 == [ts |-> <<"2">>, user |-> Undefined, username |-> <<"a">>, text |-> <<"q", "\"">>,
            channel |-> [id |-> D1, name |-> U1, is_im |-> TRUE, is_mpim |-> FALSE]]
MatchG1 == [ts |-> <<"3">>, user |-> Undefined, username |-> Undefined, text |-> Undefined,
            channel |-> [id |-> G1, name |-> Undefined, is_im |-> FALSE, is_mpim |-> TRUE]]

\* response.data of a successful search.messages; matches is messages?.matches
SearchData ==
    { [ok |-> TRUE, matches |-> NoList],
      [ok |-> TRUE, matches |-> Some(<<MatchC1>>)],
      [ok |-> TRUE, matches |-> Some(<<MatchC1, MatchD1>>)],
      [ok |-> TRUE, matches |-> Some(<<MatchG1>>)] }

\* the answers the remote can give to an upstream request
ResponsesTo(req) ==
    {NetworkError, ApiError(<<"e">>)} \cup
    CASE req.method = "conversations.history" -> {Ok(d) : d \in HistoryData}
      [] req.method = "conversations.replies" -> {Ok(d) : d \in HistoryData}
      [] req.method = "search.messages" -> {Ok(d) : d \in SearchData}
      [] req.method = "chat.postMessage" ->
            {Ok([ok |-> TRUE, ts |-> <<"9">>, channel |-> req.params.channel])}
      [] OTHER -> {}

\* resource URIs: slack://T/channels, slack://T/users, and another one
CHANNELS_URI == <<"T", "/", "c", "h", "a", "n", "n", "e", "l", "s">>
USERS_URI == <<"T", "/", "u", "s", "e", "r", "s">>
ResourceUris == {CHANNELS_URI, USERS_URI, <<"T", "/", "x">>}

(***************************************************************************)
(* The CallToolRequestSchema handler.                                      *)
(***************************************************************************)
NoReq == [method |-> "none"]
NoResp == [kind |-> "none"]
NoResult == TextResult(NoText)

NoCall == [state |-> "none", name |-> "", args |-> NoArgs, req |-> NoReq,
           resp |-> NoResp, result |-> NoResult]

\* the switch on the tool name, up to the handler's await
HandlerStart(name, args) ==
    CASE name = "channels_list" -> HandleChannelsList(args)
      [] name = "conversations_history" -> HandleConversationsHistory(args)
      [] name = "conversations_replies" -> HandleConversationsReplies(args)
      [] name = "conversations_search" -> HandleConversationsSearch(args)
      [] name = "conversations_add_message" -> HandleAddMessage(args)
      [] OTHER -> Throw(UnknownToolError(name))

\* the handler after its await of slackApi
HandlerResume(name, resp) ==
    CASE name = "conversations_history" -> SlackApi(resp, HistoryTable)
      [] name = "conversations_replies" -> SlackApi(resp, RepliesTable)
      [] name = "conversations_search" -> SlackApi(resp, SearchTable)
      [] name = "conversations_add_message" -> SlackApi(resp, PostedText)

\* the dispatcher without its try/catch: what the handler throws goes through
CatchAtBoundary_Rethrow(outcome) == outcome

\* try { ... } catch (error) { return { ..., isError: true } }
CatchAtBoundary(outcome) ==
    IF outcome.kind = "throw" THEN Return(ErrorResult(outcome.msg)) ELSE outcome

\* the call record after a piece of handler code came to `outcome`
Settle(name, args, req, resp, outcome) ==
    IF outcome.kind = "send"
    THEN [state |-> "pending", name |-> name, args |-> args,
          req |-> [method |-> outcome.method, params |-> outcome.params],
          resp |-> NoResp, result |-> NoResult]
    ELSE IF outcome.kind = "return"
    THEN [state |-> "done", name |-> name, args |-> args, req |-> req,
          resp |-> resp, result |-> outcome.result]
    ELSE [state |-> "thrown", name |-> name, args |-> args, req |-> req,
          resp |-> resp, result |-> ErrorResult(outcome.msg)]

\* the process is alive, the transport delivers requests, and the request
\* before this one has been answered
Accepting == connected /\ phase # "exited" /\ call.state = "none"

\* a tools/call request arrives and runs up to the handler's await, or to its end
CallTool ==
    /\ Accepting
    /\ \E name \in ToolNames : \E args \in ArgsFor(name) :
          call' = Settle(name, args, NoReq, NoResp,
                         CatchAtBoundary(HandlerStart(name, args)))
    /\ UNCHANGED <<envVars, phase, connected, cursor, pages, cacheVars, inflight>>

\* the upstream answer arrives and the handler runs to its end
ToolResponse ==
    /\ call.state = "pending"
    /\ \E resp \in ResponsesTo(call.req) :
          call' = Settle(call.name, call.args, call.req, resp,
                         CatchAtBoundary(HandlerResume(call.name, resp)))
    /\ UNCHANGED <<envVars, phase, connected, cursor, pages, cacheVars, inflight>>

\* the value the handler returned goes back to the caller as the response
Respond ==
    /\ call.state \in {"done", "thrown"}
    /\ call' = NoCall
    /\ UNCHANGED <<envVars, phase, connected, cursor, pages, cacheVars, inflight>>

(***************************************************************************)
(* Tool calls that overlap: the handler is async, so a second tools/call   *)
(* request is dispatched while the first is suspended at its await.        *)
(***************************************************************************)
\* the JSON-RPC ids of the two requests a client has outstanding
RequestIds == {"a", "b"}

\* the calls such a client makes
OverlappingCalls ==
    [name : {"conversations_history"},
     args : [given : {TRUE}, channel_id : {C1, D1}, limit : {<<>>},
             cursor : {Undefined}]]
    \cup
    [name : {"conversations_add_message"},
     args : [given : {TRUE}, channel_id : {C1, C2, D1}, text : {<<"x">>},
             thread_ts : {Undefined}]]

\* the transport delivers the request with this id: the one before it under
\* the same id has been answered
AcceptingId(id) == connected /\ phase # "exited" /\ inflight[id].state = "none"

\* the handler suspended at its await goes on with the answer to the request
\* of any handler suspended at the same slackApi call
AnswerCall_SharedRequest(id) ==
    /\ inflight[id].state = "pending"
    /\ \E other \in RequestIds :
          /\ inflight[other].state = "pending"
          /\ inflight[other].req.method = inflight[id].req.method
          /\ \E resp \in ResponsesTo(inflight[other].req) :
                inflight' = [inflight EXCEPT ![id] =
                    Settle(inflight[id].name, inflight[id].args, inflight[id].req, resp,
                           CatchAtBoundary(HandlerResume(inflight[id].name, resp)))]
    /\ UNCHANGED <<envVars, phase, connected, cursor, pages, cacheVars, call>>

\* a tools/call request arrives and runs up to the handler's await, or to its end
StartCall(id) ==
    /\ AcceptingId(id)
    /\ \E c \in OverlappingCalls :
          inflight' = [inflight EXCEPT ![id] =
              Settle(c.name, c.args, NoReq, NoResp,
                     CatchAtBoundary(HandlerStart(c.name, c.args)))]
    /\ UNCHANGED <<envVars, phase, connected, cursor, pages, cacheVars, call>>

\* the answer to the handler's own request resolves its await and the handler
\* runs to its end
AnswerCall(id) ==
    /\ inflight[id].state = "pending"
    /\ \E resp \in ResponsesTo(inflight[id].req) :
          inflight' = [inflight EXCEPT ![id] =
              Settle(inflight[id].name, inflight[id].args, inflight[id].req, resp,
                     CatchAtBoundary(HandlerResume(inflight[id].name, resp)))]
    /\ UNCHANGED <<envVars, phase, connected, cursor, pages, cacheVars, call>>

\* the value the handler returned goes back to the caller as the response
ReturnCall(id) ==
    /\ inflight[id].state \in {"done", "thrown"}
    /\ inflight' = [inflight EXCEPT ![id] = NoCall]
    /\ UNCHANGED <<envVars, phase, connected, cursor, pages, cacheVars, call>>

(***************************************************************************)
(* The ReadResourceRequestSchema handler.                                  *)
(***************************************************************************)
EndsWith(s, suffix) ==
    /\ Len(s) >= Len(suffix)
    /\ SubSeq(s, Len(s) - Len(suffix) + 1, Len(s)) = suffix

\* channelsById values without the direct messages
RECURSIVE NotDirect(_)
NotDirect(cs) ==
    IF cs = <<>> THEN <<>>
    ELSE (IF ~Head(cs).is_im /\ ~Head(cs).is_mpim THEN <<Head(cs)>> ELSE <<>>)
         \o NotDirect(Tail(cs))

USERS_HEADER == "id,name,real_name"

ReadResourceHandler(uri) ==
    IF EndsWith(uri, <<"/", "c", "h", "a", "n", "n", "e", "l", "s">>)
    THEN LET channels == NotDirect(MapValues(channelsById)) IN
         Return(TableResult(CHANNELS_HEADER,
                    [i \in 1..Len(channels) |-> ChannelRow(channels[i])]))
    ELSE IF EndsWith(uri, <<"/", "u", "s", "e", "r", "s">>)
    THEN LET users == MapValues(usersById) IN
         Return(TableResult(USERS_HEADER,
                    [i \in 1..Len(users) |->
                        [id |-> users[i].id, name |-> users[i].name,
                         real_name |-> Quoted(users[i].real_name)]]))
    ELSE Throw(Msg("Unknown resource: ${uri}", uri))

\* a resources/read request whose handler removes the direct messages from
\* this.channelsById itself instead of filtering a copy
ReadResource_FiltersInPlace ==
    /\ Accepting
    /\ \E uri \in ResourceUris :
          call' = Settle("resources/read", [given |-> TRUE, uri |-> uri],
                         NoReq, NoResp, ReadResourceHandler(uri))
    /\ channelsById' = SelectSeq(channelsById, LAMBDA e : ~e.v.is_im /\ ~e.v.is_mpim)
    /\ UNCHANGED <<envVars, phase, connected, cursor, pages, workspace,
                   channelsByName, usersById, usersByName, inflight>>

\* a resources/read request; nothing in this handler catches its throw
ReadResource ==
    /\ Accepting
    /\ \E uri \in ResourceUris :
          call' = Settle("resources/read", [given |-> TRUE, uri |-> uri],
                         NoReq, NoResp, ReadResourceHandler(uri))
    /\ UNCHANGED <<envVars, phase, connected, cursor, pages, cacheVars, inflight>>

(***************************************************************************)
(* start(): the process after construction, loadCache page by page, and    *)
(* the connection of the transport.                                        *)
(***************************************************************************)
Init ==
    /\ SLACK_MCP_ADD_MESSAGE_TOOL \in
          { Undefined, <<"t", "r", "u", "e">>, <<"f", "a", "l", "s", "e">>,
            C9 \o <<",">> \o C1 }
    /\ remoteChannels \in SeqsUpTo(RemoteChannelPool, MaxChannels)
    /\ remoteUsers \in SeqsUpTo(RemoteUserPool, MaxUsers)
    /\ phase = "auth"
    /\ connected = FALSE
    /\ cursor = Undefined
    /\ pages = <<>>
    /\ workspace = EmptyStr
    /\ channelsById = <<>>
    /\ channelsByName = <<>>
    /\ usersById = <<>>
    /\ usersByName = <<>>
    /\ call = NoCall
    /\ inflight = [id \in RequestIds |-> NoCall]

\* a slackApi call of start() fails (network error or ok: false): the
\* rejection reaches the catch of main, which exits the process
StartFails ==
    /\ phase \in {"auth", "channels", "users", "loaded"}
    /\ phase' = "exited"
    /\ UNCHANGED <<envVars, connected, cursor, pages, cacheVars, call, inflight>>

\* a listing request slackApi(method, { ..., cursor }) and the
\* response_metadata?.next_cursor of its answer
PageRequest(method, cur, next) == [method |-> method, cursor |-> cur, next |-> next]

\* const authTest = await slackApi("auth.test"); workspace = team || "workspace"
LoadCacheAuth ==
    /\ phase = "auth"
    /\ \E team \in RemoteTeams :
          workspace' = OrElse(team, <<"w", "o", "r", "k", "s", "p", "a", "c", "e">>)
    /\ phase' = "channels"
    /\ cursor' = Undefined
    /\ UNCHANGED <<envVars, connected, pages, channelsById, channelsByName,
                   usersById, usersByName, call, inflight>>

\* the channels loop left after its first page, whatever next_cursor says
LoadCacheChannels_OnePage ==
    /\ phase = "channels"
    /\ \E n \in 1..MaxPageLen :
          LET page == ListingPage(remoteChannels, cursor, n)
              tables == InsertChannels(
                           [byId |-> channelsById, byName |-> channelsByName],
                           page.items)
          IN  /\ channelsById' = tables.byId
              /\ channelsByName' = tables.byName
              /\ pages' = Append(pages, PageRequest("conversations.list", cursor,
                                        IF page.more THEN page.next ELSE Undefined))
              /\ phase' = "users"
              /\ cursor' = Undefined
    /\ UNCHANGED <<envVars, connected, workspace, usersById, usersByName, call, inflight>>

\* the channels loop sending every request without the cursor
LoadCacheChannels_NoCursor ==
    /\ phase = "channels"
    /\ \E n \in 1..MaxPageLen, last \in {Undefined, EmptyStr} :
          LET page == ListingPage(remoteChannels, Undefined, n)
              tables == InsertChannels(
                           [byId |-> channelsById, byName |-> channelsByName],
                           page.items)
              next == IF page.more THEN page.next ELSE last
          IN  /\ channelsById' = tables.byId
              /\ channelsByName' = tables.byName
              /\ pages' = Append(pages, PageRequest("conversations.list", Undefined, next))
              /\ IF Falsy(next)
                 THEN /\ phase' = "users"
                      /\ cursor' = Undefined
                 ELSE /\ phase' = "channels"
                      /\ cursor' = next
    /\ UNCHANGED <<envVars, connected, workspace, usersById, usersByName, call, inflight>>

\* one iteration of the channels do-while: request a page with the current
\* cursor, insert its channels, take next_cursor, leave the loop when falsy
LoadCacheChannels ==
    /\ phase = "channels"
    /\ \E n \in 1..MaxPageLen, last \in {Undefined, EmptyStr} :
          LET page == ListingPage(remoteChannels, cursor, n)
              tables == InsertChannels(
                           [byId |-> channelsById, byName |-> channelsByName],
                           page.items)
              next == IF page.more THEN page.next ELSE last
          IN  /\ channelsById' = tables.byId
              /\ channelsByName' = tables.byName
              /\ pages' = Append(pages, PageRequest("conversations.list", cursor, next))
              /\ IF Falsy(next)
                 THEN /\ phase' = "users"
                      /\ cursor' = Undefined
                 ELSE /\ phase' = "channels"
                      /\ cursor' = next
    /\ UNCHANGED <<envVars, connected, workspace, usersById, usersByName, call, inflight>>

\* one iteration of the users do-while
LoadCacheUsers ==
    /\ phase = "users"
    /\ \E n \in 1..MaxPageLen, last \in {Undefined, EmptyStr} :
          LET page == ListingPage(remoteUsers, cursor, n)
              tables == InsertUsers(
                           [byId |-> usersById, byName |-> usersByName],
                           page.items)
              next == IF page.more THEN page.next ELSE last
          IN  /\ usersById' = tables.byId
              /\ usersByName' = tables.byName
              /\ pages' = Append(pages, PageRequest("users.list", cursor, next))
              /\ IF Falsy(next)
                 THEN /\ phase' = "loaded"
                      /\ cursor' = Undefined
                 ELSE /\ phase' = "users"
                      /\ cursor' = next
    /\ UNCHANGED <<envVars, connected, workspace, channelsById, channelsByName, call, inflight>>

\* start() connecting the transport before it awaits loadCache
Connect_BeforeLoadCache ==
    /\ phase = "auth"
    /\ ~connected
    /\ connected' = TRUE
    /\ UNCHANGED <<envVars, phase, cursor, pages, cacheVars, call, inflight>>

\* start(): after loadCache has returned, connect the transport; the
\* requests of loadCache are behind it
Connect ==
    /\ phase = "loaded"
    /\ phase' = "serving"
    /\ connected' = TRUE
    /\ pages' = <<>>
    /\ UNCHANGED <<envVars, cursor, cacheVars, call, inflight>>

Next ==
    \/ StartFails
    \/ LoadCacheAuth
    \/ LoadCacheChannels
    \/ LoadCacheUsers
    \/ Connect
    \/ CallTool
    \/ ToolResponse
    \/ ReadResource
    \/ Respond

Spec == Init /\ [][Next]_vars

\* start() alone, up to the connection of the transport: every awaited
\* request is answered, and start() goes on after each await
StartNext ==
    \/ StartFails
    \/ LoadCacheAuth
    \/ LoadCacheChannels
    \/ LoadCacheUsers
    \/ Connect

\* the server with a client that has two requests outstanding
OverlapNext ==
    \/ StartFails
    \/ LoadCacheAuth
    \/ LoadCacheChannels
    \/ LoadCacheUsers
    \/ Connect
    \/ \E id \in RequestIds : StartCall(id)
    \/ \E id \in RequestIds : AnswerCall(id)
    \/ \E id \in RequestIds : ReturnCall(id)

OverlapSpec == Init /\ [][OverlapNext]_vars

(***************************************************************************)
(* The rendering of free text: a workspace whose one channel carries any   *)
(* topic and purpose, and whose messages carry any text, listed and read.  *)
(***************************************************************************)
\* the free texts: every string of letters, commas and double quotes
FreeTexts == SeqsUpTo({"a", ",", "\""}, MaxTextLen)

RenderInit ==
    /\ SLACK_MCP_ADD_MESSAGE_TOOL = Undefined
    /\ \E topic \in FreeTexts, purpose \in {Undefined, <<"\"", "a", "\"">>} :
          remoteChannels =
             <<[id |-> C1, name |-> <<"g">>, is_private |-> FALSE, is_im |-> FALSE,
                is_mpim |-> FALSE, topic |-> topic, purpose |-> purpose,
                num_members |-> 3]>>
    /\ remoteUsers = <<>>
    /\ phase = "auth"
    /\ connected = FALSE
    /\ cursor = Undefined
    /\ pages = <<>>
    /\ workspace = EmptyStr
    /\ channelsById = <<>>
    /\ channelsByName = <<>>
    /\ usersById = <<>>
    /\ usersByName = <<>>
    /\ call = NoCall
    /\ inflight = [id \in RequestIds |-> NoCall]

\* the calls made on that workspace
RenderCalls ==
    [name : {"channels_list"},
     args : [given : {TRUE}, types : {Undefined}, limit : {<<>>},
             channel_id : {Undefined}]]
    \cup
    [name : {"conversations_history", "conversations_replies"},
     args : [given : {TRUE}, channel_id : {C1}, thread_ts : {<<"1">>},
             limit : {<<>>}, cursor : {Undefined}]]

\* the answers to conversations.history and conversations.replies there: one
\* message with any text
RenderResponses ==
    {Ok([ok |-> TRUE, messages |-> Some(<<[M1 EXCEPT !.text = text]>>),
         has_more |-> FALSE, next_cursor |-> Undefined]) : text \in FreeTexts}

\* a tools/call request arrives and runs up to the handler's await, or to its end
RenderCallTool ==
    /\ Accepting
    /\ \E c \in RenderCalls :
          call' = Settle(c.name, c.args, NoReq, NoResp,
                         CatchAtBoundary(HandlerStart(c.name, c.args)))
    /\ UNCHANGED <<envVars, phase, connected, cursor, pages, cacheVars, inflight>>

\* the upstream answer arrives and the handler runs to its end
RenderToolResponse ==
    /\ call.state = "pending"
    /\ \E resp \in RenderResponses :
          call' = Settle(call.name, call.args, call.req, resp,
                         CatchAtBoundary(HandlerResume(call.name, resp)))
    /\ UNCHANGED <<envVars, phase, connected, cursor, pages, cacheVars, inflight>>

RenderNext ==
    \/ StartFails
    \/ LoadCacheAuth
    \/ LoadCacheChannels
    \/ LoadCacheUsers
    \/ Connect
    \/ RenderCallTool
    \/ RenderToolResponse
    \/ Respond

RenderSpec == RenderInit /\ [][RenderNext]_vars

(***************************************************************************)
(* A workspace with several members, some deleted, some bots, listed page  *)
(* by page, and the calls that look users up.                              *)
(***************************************************************************)
\* the member objects of that workspace: those of RemoteUserPool and an
\* active member who has the bot's name and no real_name
MemberPool ==
    RemoteUserPool \cup
    { [id |-> U3, name |-> <<"b">>, real_name |-> Undefined, deleted |-> FALSE,
       is_bot |-> FALSE] }

MembersInit ==
    /\ SLACK_MCP_ADD_MESSAGE_TOOL = Undefined
    /\ remoteChannels = <<>>
    /\ remoteUsers \in SeqsUpTo(MemberPool, MaxMembers)
    /\ phase = "auth"
    /\ connected = FALSE
    /\ cursor = Undefined
    /\ pages = <<>>
    /\ workspace = EmptyStr
    /\ channelsById = <<>>
    /\ channelsByName = <<>>
    /\ usersById = <<>>
    /\ usersByName = <<>>
    /\ call = NoCall
    /\ inflight = [id \in RequestIds |-> NoCall]

\* the calls made on that workspace: they look up message authors and the
\* from_user of a search
MembersCalls ==
    [name : {"conversations_history", "conversations_replies"},
     args : [given : {TRUE}, channel_id : {C1}, thread_ts : {<<"1">>},
             limit : {<<>>}, cursor : {Undefined}]]
    \cup
    [name : {"conversations_search"},
     args : [given : {TRUE}, query : {<<"q">>}, channel : {Undefined},
             from_user : {U1, B1, U2, U3}, limit : {<<>>}]]

\* the answers there: a message of any member or of nobody, then one of the bot
MembersResponsesTo(req) ==
    IF req.method = "search.messages" THEN ResponsesTo(req)
    ELSE {Ok([ok |-> TRUE, messages |-> Some(<<[M1 EXCEPT !.user = author], M2>>),
              has_more |-> FALSE, next_cursor |-> Undefined])
             : author \in {U1, U2, U3, Undefined}}

\* a tools/call request arrives and runs up to the handler's await, or to its end
MembersCallTool ==
    /\ Accepting
    /\ \E c \in MembersCalls :
          call' = Settle(c.name, c.args, NoReq, NoResp,
                         CatchAtBoundary(HandlerStart(c.name, c.args)))
    /\ UNCHANGED <<envVars, phase, connected, cursor, pages, cacheVars, inflight>>

\* the upstream answer arrives and the handler runs to its end
MembersToolResponse ==
    /\ call.state = "pending"
    /\ \E resp \in MembersResponsesTo(call.req) :
          call' = Settle(call.name, call.args, call.req, resp,
                         CatchAtBoundary(HandlerResume(call.name, resp)))
    /\ UNCHANGED <<envVars, phase, connected, cursor, pages, cacheVars, inflight>>

MembersNext ==
    \/ StartFails
    \/ LoadCacheAuth
    \/ LoadCacheChannels
    \/ LoadCacheUsers
    \/ Connect
    \/ MembersCallTool
    \/ MembersToolResponse
    \/ ReadResource
    \/ Respond

MembersSpec == MembersInit /\ [][MembersNext]_vars

StartSpec ==
    /\ Init
    /\ [][StartNext]_vars
    /\ WF_vars(LoadCacheAuth)
    /\ WF_vars(LoadCacheChannels)
    /\ WF_vars(LoadCacheUsers)
    /\ WF_vars(Connect)

(***************************************************************************)
(* Vocabulary of the properties.                                           *)
(***************************************************************************)
ChannelTools ==
    {"conversations_history", "conversations_replies", "conversations_search",
     "conversations_add_message"}

FiveTools == ChannelTools \cup {"channels_list"}

\* the channel argument of the call: `channel` for search, `channel_id` otherwise
TargetOf(c) ==
    IF ~c.args.given \/ c.name \notin FiveTools THEN Undefined
    ELSE IF c.name = "conversations_search" THEN c.args.channel
    ELSE c.args.channel_id

IsString(x) == x # Undefined /\ x # NotAString

IsDirect(channel) == channel.is_im \/ channel.is_mpim

\* the target is a direct message or group direct message: by its prefix, or
\* by the flags of the cached channel with that id or that #name
IsDmTarget(t) ==
    /\ IsString(t)
    /\ \/ StartsWith(t, <<"@">>)
       \/ StartsWith(t, <<"D">>)
       \/ MapHas(channelsById, t) /\ IsDirect(MapGet(channelsById, t))
       \/ MapHas(channelsByName, t) /\ IsDirect(MapGet(channelsByName, t))

\* the call has ended in an error result and has sent nothing upstream
Rejected(c) ==
    /\ c.state = "done"
    /\ c.result.isError
    /\ c.req = NoReq

\* no row of the table is the row of a cached direct message
NoDirectRow(rows) ==
    \A i \in 1..Len(rows) :
        ~(MapHas(channelsById, rows[i].id) /\ IsDirect(MapGet(channelsById, rows[i].id)))

(***************************************************************************)
(* C1                                                                      *)
(***************************************************************************)
\* C1 as stated: each of the five tools, called with a target that is a
\* direct message or group direct message, ends in an error result and sends
\* no upstream request.
C1_AllFiveToolsReject ==
    (call.state # "none" /\ call.name \in FiveTools /\ IsDmTarget(TargetOf(call)))
        => Rejected(call)

\* C1 amended: each of the four tools that take a channel argument (history,
\* replies, search, add_message), called with a target that is a direct
\* message or group direct message, ends in an error result and sends no
\* upstream request; channels_list takes no channel argument: called with such
\* a target it sends no upstream request and returns no direct-message row.
C1_ChannelToolsRejectDmTargets ==
    (call.state # "none" /\ IsDmTarget(TargetOf(call))) =>
        /\ call.name \in ChannelTools => Rejected(call)
        /\ call.name = "channels_list" =>
              /\ call.state = "done"
              /\ call.req = NoReq
              /\ NoDirectRow(call.result.rows)

\* a search scoped to the #name of a cached group direct message was rejected
C1_Witness ==
    /\ call.state = "done"
    /\ call.name = "conversations_search"
    /\ call.args.given
    /\ call.args.channel = <<"#", "m">>
    /\ MapHas(channelsByName, <<"#", "m">>)
    /\ call.result = ErrorResult(DM_ERROR)

(***************************************************************************)
(* C2                                                                      *)
(***************************************************************************)
IsDirectMatch(m) == m.channel.is_im \/ m.channel.is_mpim

\* C2: no row returned by conversations_search comes from a match in a direct
\* message or group direct message conversation (row i is made from match i).
C2_SearchReturnsNoDirectMatch ==
    (call.state = "done" /\ call.name = "conversations_search" /\ ~call.result.isError)
        => \A i \in 1..Len(call.result.rows) :
              ~IsDirectMatch(MatchesOf(call.resp.data)[i])

(***************************************************************************)
(* C3                                                                      *)
(***************************************************************************)
IsChannelsListing(c) ==
    \/ c.name = "channels_list"
    \/ c.name = "resources/read" /\ c.args.uri = CHANNELS_URI

\* C3: neither channels_list nor a read of the channels resource returns a
\* row for a cached channel whose is_im or is_mpim flag is true, whatever the
\* cache, the types and the limit.
C3_ListingHasNoDirectRow ==
    (call.state = "done" /\ IsChannelsListing(call)) => NoDirectRow(call.result.rows)

\* channels_list returned a row from a cache that holds a group direct message
\* first
C3_Witness ==
    /\ call.state = "done"
    /\ call.name = "channels_list"
    /\ Len(channelsById) = 2
    /\ IsDirect(channelsById[1].v)
    /\ Len(call.result.rows) = 1

(***************************************************************************)
(* C4                                                                      *)
(***************************************************************************)
\* the posting setting is neither "true" nor "1" nor a list starting with C
PostingNotEnabled ==
    /\ SLACK_MCP_ADD_MESSAGE_TOOL \notin {<<"t", "r", "u", "e">>, <<"1">>}
    /\ \/ SLACK_MCP_ADD_MESSAGE_TOOL = Undefined
       \/ SLACK_MCP_ADD_MESSAGE_TOOL = EmptyStr
       \/ SLACK_MCP_ADD_MESSAGE_TOOL[1] # "C"

\* C4: when posting is not enabled, conversations_add_message rejects every
\* target and no chat.postMessage request is ever sent.
C4_DisabledPostingRejectsAll ==
    PostingNotEnabled =>
        /\ call.req.method # "chat.postMessage"
        /\ (call.state # "none" /\ call.name = "conversations_add_message")
              => Rejected(call)

\* posting to a cached public channel was rejected with the setting "false"
C4_Witness ==
    /\ SLACK_MCP_ADD_MESSAGE_TOOL = <<"f", "a", "l", "s", "e">>
    /\ call.state = "done"
    /\ call.name = "conversations_add_message"
    /\ call.args.given
    /\ call.args.channel_id = C1
    /\ MapHas(channelsById, C1)
    /\ call.result = ErrorResult(DISABLED_ERROR)

(***************************************************************************)
(* C5                                                                      *)
(***************************************************************************)
\* the id the claim expects a target to resolve to: the id cached under a
\* #name, the target itself otherwise
ExpectedId(t) ==
    IF StartsWith(t, <<"#">>) THEN MapGet(channelsByName, t).id ELSE t

\* the target is one resolveChannelId accepts
Resolvable(t) ==
    /\ IsString(t)
    /\ ~IsDmTarget(t)
    /\ StartsWith(t, <<"#">>) => MapHas(channelsByName, t)

\* C5: with the allow-list "C9,C1", chat.postMessage is sent only for a
\* resolved id in {C9, C1} and carries exactly that id; a post to an accepted
\* target whose id is in the list is sent, one whose id is not is rejected
\* with no upstream request.
C5_AllowListDecidesPosting ==
    (SLACK_MCP_ADD_MESSAGE_TOOL = C9 \o <<",">> \o C1) =>
        /\ call.req.method = "chat.postMessage" =>
              /\ call.name = "conversations_add_message"
              /\ call.req.params.channel \in {C9, C1}
              /\ call.req.params.channel = ExpectedId(call.args.channel_id)
        /\ (call.state # "none" /\ call.name = "conversations_add_message"
              /\ Resolvable(TargetOf(call))) =>
              IF ExpectedId(TargetOf(call)) \in {C9, C1}
              THEN call.req.method = "chat.postMessage"
              ELSE Rejected(call)

\* a post to #g, which resolves to C1, was sent to C1 and answered
C5_Witness ==
    /\ SLACK_MCP_ADD_MESSAGE_TOOL = C9 \o <<",">> \o C1
    /\ call.state = "done"
    /\ call.name = "conversations_add_message"
    /\ call.args.given
    /\ call.args.channel_id = <<"#", "g">>
    /\ call.req.method = "chat.postMessage"
    /\ call.req.params.channel = C1
    /\ ~call.result.isError

(***************************************************************************)
(* C6                                                                      *)
(***************************************************************************)
KeysOf(m) == {m[i].k : i \in 1..Len(m)}

ListedChannelIds == {remoteChannels[i].id : i \in 1..Len(remoteChannels)}

\* the listed members that are neither deleted nor bots
KeptUserIndexes ==
    {i \in 1..Len(remoteUsers) : ~remoteUsers[i].deleted /\ ~remoteUsers[i].is_bot}

KeptUserIds == {remoteUsers[i].id : i \in KeptUserIndexes}

\* C6: a tool call is served only once the transport is connected, the
\* transport is connected only after auth.test and every page of both
\* listings have been received, and after a failed start nothing is connected,
\* nothing is served and nothing (no retry) happens any more.
C6_ServesOnlyAfterCompleteBuild ==
    /\ call.state # "none" => connected
    /\ connected =>
          /\ phase = "serving"
          /\ workspace # EmptyStr
          /\ KeysOf(channelsById) = ListedChannelIds
          /\ KeysOf(usersById) = KeptUserIds
    /\ phase = "exited" =>
          /\ ~connected
          /\ call.state = "none"
          /\ ~ENABLED Next

\* a tool call was answered after a build over two channel pages and a user page
C6_Witness ==
    /\ call.state = "done"
    /\ call.name = "conversations_history"
    /\ Len(remoteChannels) = 2
    /\ Len(channelsById) = 2
    /\ Len(usersById) = 1

(***************************************************************************)
(* C7                                                                      *)
(***************************************************************************)
IsToolCall(c) == c.name \in ToolNames

UpstreamFailed(c) ==
    \/ c.resp.kind = "network_error"
    \/ c.resp.kind = "data" /\ ~c.resp.data.ok

\* the states of C7: no tool call is ever in the state "thrown", and each
\* kind of failure has ended as an error result of a connected, serving server
C7_NothingThrown ==
    /\ IsToolCall(call) => call.state # "thrown"
    /\ (IsToolCall(call) /\ call.state = "done") =>
          /\ call.name = "no_such_tool" => call.result.isError
          /\ (call.name \in ChannelTools /\ ~call.args.given) => call.result.isError
          /\ (call.name \in ChannelTools /\ call.req = NoReq) => call.result.isError
          /\ UpstreamFailed(call) => call.result.isError
          /\ call.result.isError => (connected /\ phase = "serving")

\* the steps of C7: what follows a failed tool call leaves the server as it
\* was before the call (connected, serving, the same cache), ready for the next
C7_ServesOn ==
    (IsToolCall(call) /\ call.state = "done" /\ call.result.isError) =>
        /\ call' = NoCall
        /\ connected' /\ phase' = "serving"
        /\ UNCHANGED cacheVars

\* C7: nothing a tool call throws crosses the dispatch boundary: an unknown
\* tool, a call without arguments to a tool that reads them, a rejected or
\* unknown target and a failed upstream request all end as an error result
\* with isError set, and after it the server goes on serving, unchanged.
C7_FailuresBecomeErrorResults == []C7_NothingThrown /\ [][C7_ServesOn]_vars

\* a call whose upstream request was answered ok: false ended as an error result
C7_Witness ==
    /\ call.state = "done"
    /\ call.name = "conversations_replies"
    /\ call.resp = ApiError(<<"e">>)
    /\ call.result = ErrorResult(SlackApiError(<<"e">>))

(***************************************************************************)
(* C8                                                                      *)
(***************************************************************************)
BuildDone == phase \in {"loaded", "serving"}

ValuesOf(m) == {m[i].v : i \in 1..Len(m)}

\* the last listed channel object with this id / with this name
LastChannelWithId(id) ==
    remoteChannels[CHOOSE i \in 1..Len(remoteChannels) :
        /\ remoteChannels[i].id = id
        /\ \A j \in (i + 1)..Len(remoteChannels) : remoteChannels[j].id # id]

LastChannelWithName(name) ==
    remoteChannels[CHOOSE i \in 1..Len(remoteChannels) :
        /\ remoteChannels[i].name = name
        /\ \A j \in (i + 1)..Len(remoteChannels) : remoteChannels[j].name # name]

LastKeptUserWithId(id) ==
    remoteUsers[CHOOSE i \in KeptUserIndexes :
        /\ remoteUsers[i].id = id
        /\ \A j \in KeptUserIndexes : j > i => remoteUsers[j].id # id]

C9_UpstreamLimitsAtMost100 ==
    /\ call.req.method \in {"conversations.history", "conversations.replies"}
          => call.req.params.limit <= 100
    /\ call.req.method = "search.messages" => call.req.params.count <= 100

Max(a, b) == IF a >= b THEN a ELSE b

\* the part of C9 about channels_list that holds: with a limit of at least 1
\* it returns at most min(limit, 1000) rows
C9_ListRowsWithinPositiveLimit ==
    (call.state = "done" /\ call.name = "channels_list" /\ call.args.given
        /\ call.args.limit # <<>> /\ call.args.limit[1] >= 1)
        => Len(call.result.rows) <= Min(call.args.limit[1], 1000)

\* C9: for every integer limit, zero and negative ones included, the limit
\* sent upstream by history and replies and the count sent by search are at
\* most 100, and channels_list returns at most min(limit, 1000) rows (no row
\* when that is zero or less).
C9_LimitsClamped ==
    /\ C9_UpstreamLimitsAtMost100
    /\ (call.state = "done" /\ call.name = "channels_list" /\ call.args.given
          /\ call.args.limit # <<>>)
          => Len(call.result.rows) <= Max(0, Min(call.args.limit[1], 1000))

(***************************************************************************)
(* C10                                                                     *)
(***************************************************************************)
\* the call leaves out an argument its tool requires
MissingRequired(c) ==
    /\ c.name \in ChannelTools
    /\ \/ ~c.args.given
       \/ c.name = "conversations_history" /\ c.args.channel_id = Undefined
       \/ c.name = "conversations_replies"
            /\ (c.args.channel_id = Undefined \/ c.args.thread_ts = Undefined)
       \/ c.name = "conversations_search" /\ c.args.query = Undefined
       \/ c.name = "conversations_add_message"
            /\ (c.args.channel_id = Undefined \/ c.args.text = Undefined)

\* C10: a tool call that leaves out a required argument ends in an error
\* result and sends no upstream request.
C10_MissingRequiredRejected ==
    (call.state # "none" /\ MissingRequired(call)) => Rejected(call)

(***************************************************************************)
(* C11                                                                     *)
(***************************************************************************)
\* every value of table `from` is the value of table `to` under the key
\* KeyOf gives it
Reachable(from, to, KeyOf(_)) ==
    \A i \in 1..Len(from) : MapGet(to, KeyOf(from[i].v)) = from[i].v

ChannelIdOf(channel) == channel.id
ChannelNameOf(channel) == channel.name
UserIdOf(user) == user.id
UserKeyOf(user) == <<"@">> \o user.name

\* C11: in every state, during and after the build, every channel of
\* channelsById is the value of channelsByName under its own name and every
\* channel of channelsByName is the value of channelsById under its own id,
\* and likewise for usersById and usersByName.
C11_TablesMutuallyConsistent ==
    /\ Reachable(channelsById, channelsByName, ChannelNameOf)
    /\ Reachable(channelsByName, channelsById, ChannelIdOf)
    /\ Reachable(usersById, usersByName, UserKeyOf)
    /\ Reachable(usersByName, usersById, UserIdOf)

(***************************************************************************)
(* C12                                                                     *)
(***************************************************************************)
\* the requests of one listing, in the order they were sent
PagesOf(method) == SelectSeq(pages, LAMBDA p : p.method = method)

\* the requests of a listing form a chain: the first carries no cursor, each
\* later one carries the next cursor of the answer before it, and none
\* follows an answer without a next cursor
CursorChain(ps) ==
    /\ ps # <<>> => ps[1].cursor = Undefined
    /\ \A i \in 2..Len(ps) :
          /\ ~Falsy(ps[i - 1].next)
          /\ ps[i].cursor = ps[i - 1].next

\* the loop of a listing has been left: its last answer had no next cursor
LoopLeft(ps) == ps # <<>> /\ Falsy(ps[Len(ps)].next)

\* the loop of a listing is running: no request yet, or the last answer had
\* a next cursor, which is the cursor of the request to come
LoopRunning(ps) ==
    IF ps = <<>> THEN cursor = Undefined
    ELSE ~Falsy(ps[Len(ps)].next) /\ cursor = ps[Len(ps)].next

\* the states of C12 while loadCache runs and until start() goes on
C12_CursorChain ==
    /\ CursorChain(PagesOf("conversations.list"))
    /\ CursorChain(PagesOf("users.list"))
    /\ phase = "auth" => pages = <<>>
    /\ phase = "channels" =>
          /\ LoopRunning(PagesOf("conversations.list"))
          /\ PagesOf("users.list") = <<>>
    /\ phase = "users" =>
          /\ LoopLeft(PagesOf("conversations.list"))
          /\ LoopRunning(PagesOf("users.list"))
    /\ phase = "loaded" =>
          /\ LoopLeft(PagesOf("conversations.list"))
          /\ LoopLeft(PagesOf("users.list"))
          \* no cap: as many requests as the remote had pages to give
          /\ Len(PagesOf("conversations.list")) >= Len(remoteChannels) \div MaxPageLen
          /\ Len(PagesOf("users.list")) >= Len(remoteUsers) \div MaxPageLen

\* start() has got past loadCache, or the process has exited
BuildEnded == phase \in {"loaded", "serving", "exited"}

\* C12: the first request of each listing carries no cursor, every later one
\* carries exactly the next cursor of the answer before it, the loop leaves at
\* the first answer with no or an empty next cursor and not before, and with
\* a remote that comes to such an answer the build ends.
C12_PaginationFollowsCursors == []C12_CursorChain /\ <>BuildEnded

\* the build ended after two channel requests, the last answered with an
\* empty next cursor
C12_Witness ==
    /\ phase = "loaded"
    /\ Len(PagesOf("conversations.list")) = 2
    /\ PagesOf("conversations.list")[2].cursor = CursorAt(1)
    /\ PagesOf("conversations.list")[2].next = EmptyStr
    /\ Len(PagesOf("users.list")) = 1

(***************************************************************************)
(* C13                                                                     *)
(***************************************************************************)
\* the inputs resolveChannelId is applied to: the channel arguments of the
\* calls and every id and #name the cache holds
ResolveInputs == Targets \cup KeysOf(channelsById) \cup KeysOf(channelsByName)

\* the id names a cached channel that is not a direct message
ValidNonDm(id) == MapHas(channelsById, id) /\ ~IsDirect(MapGet(channelsById, id))

\* resolveChannelId accepts the id and returns it unchanged
ResolvesToItself(id) == ResolveChannelId(id) = [ok |-> TRUE, id |-> id]

\* the upstream requests that carry the resolved channel id
ChannelMethods == {"conversations.history", "conversations.replies", "chat.postMessage"}

\* C13: for every input resolveChannelId accepts, returning an id r that names
\* a cached non-DM channel, resolveChannelId(r) succeeds and returns r; so the
\* channel id a call has sent upstream resolves to itself.
C13_ResolveIsIdempotent ==
    /\ \A input \in ResolveInputs :
          LET r == ResolveChannelId(input) IN
          (r.ok /\ ValidNonDm(r.id)) => ResolvesToItself(r.id)
    /\ (call.req.method \in ChannelMethods /\ ValidNonDm(call.req.params.channel))
          => ResolvesToItself(call.req.params.channel)

\* #g was resolved to the cached public channel C1 and sent upstream
C13_Witness ==
    /\ call.state = "pending"
    /\ call.name = "conversations_history"
    /\ call.args.channel_id = <<"#", "g">>
    /\ call.req.params.channel = C1
    /\ ValidNonDm(C1)

(***************************************************************************)
(* C14                                                                     *)
(***************************************************************************)
\* a raw identifier: a string that starts with none of "@", "D" and "#"
IsRawId(t) ==
    /\ IsString(t)
    /\ ~StartsWith(t, <<"@">>)
    /\ ~StartsWith(t, <<"D">>)
    /\ ~StartsWith(t, <<"#">>)

UnknownRawId(t) == IsRawId(t) /\ ~MapHas(channelsById, t)

\* the upstream method of a tool that sends the channel id as `channel`
MethodOf(name) ==
    CASE name = "conversations_history" -> "conversations.history"
      [] name = "conversations_replies" -> "conversations.replies"
      [] name = "conversations_add_message" -> "chat.postMessage"

\* posting is enabled and no allow-list is set
PostingOpen == ADD_MESSAGE_ENABLED /\ ALLOWED_CHANNELS = Undefined

\* C14: resolveChannelId returns a raw identifier that the cache does not hold
\* unchanged, and conversations_history, conversations_replies and, when
\* posting is enabled without an allow-list, conversations_add_message called
\* with it send exactly that identifier upstream.
C14_UnknownRawIdPassedThrough ==
    /\ \A input \in ResolveInputs :
          UnknownRawId(input) => ResolvesToItself(input)
    /\ (call.state # "none" /\ UnknownRawId(TargetOf(call))
          /\ \/ call.name \in {"conversations_history", "conversations_replies"}
             \/ call.name = "conversations_add_message" /\ PostingOpen)
          => /\ call.req.method = MethodOf(call.name)
             /\ call.req.params.channel = TargetOf(call)

\* a post to G1, which the cache does not hold, was sent to G1 and answered
C14_Witness ==
    /\ call.state = "done"
    /\ call.name = "conversations_add_message"
    /\ call.args.given
    /\ call.args.channel_id = G1
    /\ ~MapHas(channelsById, G1)
    /\ call.req.method = "chat.postMessage"
    /\ call.req.params.channel = G1
    /\ ~call.result.isError

(***************************************************************************)
(* C15                                                                     *)
(***************************************************************************)
IsName(t) == IsString(t) /\ StartsWith(t, <<"#">>)

\* what C15 says resolveChannelId comes to on a #name
ExpectedOfName(t) ==
    IF ~MapHas(channelsByName, t)
        THEN [ok |-> FALSE, error |-> NotFoundError(t)]
    ELSE IF IsDirect(MapGet(channelsByName, t))
        THEN [ok |-> FALSE, error |-> DM_ERROR]
    ELSE [ok |-> TRUE, id |-> MapGet(channelsByName, t).id]

\* handleAddMessage throws before it resolves the channel
PostingDisabled == ~ADD_MESSAGE_ENABLED /\ ALLOWED_CHANNELS = Undefined

\* the call is one that resolves its channel argument
ResolvesTarget(c) ==
    /\ c.state # "none"
    /\ c.name \in ChannelTools
    /\ c.name = "conversations_add_message" => ~PostingDisabled

\* C15: for an input starting with "#", resolveChannelId fails with a
\* not-found error, which is none of the security rejections, when the name is
\* not cached, fails with the security rejection when the cached channel is
\* flagged is_im or is_mpim, and otherwise returns the id cached under the
\* name; a call with an unknown or flagged name ends in that error and sends
\* no upstream request.
C15_NameResolution ==
    /\ \A input \in ResolveInputs :
          IsName(input) =>
             /\ ResolveChannelId(input) = ExpectedOfName(input)
             /\ NotFoundError(input) \notin SecurityErrors
             /\ DM_ERROR \in SecurityErrors
    /\ (ResolvesTarget(call) /\ IsName(TargetOf(call))) =>
          LET expected == ExpectedOfName(TargetOf(call)) IN
          IF expected.ok
          THEN call.name \in {"conversations_history", "conversations_replies"}
                  => call.req.params.channel = expected.id
          ELSE /\ Rejected(call)
               /\ call.result = ErrorResult(expected.error)

\* a history call for #g, which the cache does not hold, ended in not found
C15_Witness ==
    /\ call.state = "done"
    /\ call.name = "conversations_history"
    /\ call.args.given
    /\ call.args.channel_id = <<"#", "g">>
    /\ ~MapHas(channelsByName, <<"#", "g">>)
    /\ call.result = ErrorResult(NotFoundError(<<"#", "g">>))
    /\ call.req = NoReq

(***************************************************************************)
(* C16                                                                     *)
(***************************************************************************)
\* the search was called with a channel argument (absent and "" are none)
\* that resolveChannelId accepts
SearchWithAcceptedChannel(c) ==
    /\ c.state # "none"
    /\ c.name = "conversations_search"
    /\ c.args.given
    /\ ~Falsy(c.args.channel)
    /\ ResolveChannelId(c.args.channel).ok

\* C16: a conversations_search called with a channel argument that
\* resolveChannelId accepts sends upstream a query that contains a channel
\* scope clause (" in:"), also when the argument is a raw id that the cache
\* does not hold.
C16_SearchWithChannelIsScoped ==
    SearchWithAcceptedChannel(call) =>
        /\ call.req.method = "search.messages"
        /\ call.req.params.query # Undefined
        /\ Includes(call.req.params.query, IN_CLAUSE)

(***************************************************************************)
(* C17                                                                     *)
(***************************************************************************)
MessageTools == {"conversations_history", "conversations_replies"}

\* C17: in a table returned by conversations_history or conversations_replies
\* the cursor column is empty on every row but the last; the last row's cursor
\* is non-empty only when the upstream answer has has_more, and then it is the
\* answer's next cursor; and the cursor argument of a call is sent upstream
\* unchanged.
C17_CursorOnLastRowOnly ==
    /\ (call.state = "done" /\ call.name \in MessageTools /\ ~call.result.isError) =>
          LET rows == call.result.rows
              data == call.resp.data
          IN  /\ Len(rows) = Len(MessagesOf(data))
              /\ \A i \in 1..(Len(rows) - 1) : rows[i].cursor = EmptyStr
              /\ Len(rows) > 0 =>
                    LET last == rows[Len(rows)].cursor IN
                    /\ last # EmptyStr => (data.has_more /\ last = data.next_cursor)
                    /\ (data.has_more /\ ~Falsy(data.next_cursor)) => last = data.next_cursor
    /\ (call.name \in MessageTools /\ call.req # NoReq) =>
          call.req.params.cursor = call.args.cursor

\* a history call made with the cursor "n" sent it upstream and returned two
\* rows, the second with the next cursor of the answer
C17_Witness ==
    /\ call.state = "done"
    /\ call.name = "conversations_history"
    /\ call.args.given
    /\ call.args.cursor = <<"n">>
    /\ ~call.result.isError
    /\ call.req.params.cursor = <<"n">>
    /\ Len(call.result.rows) = 2
    /\ call.result.rows[1].cursor = EmptyStr
    /\ call.result.rows[2].cursor = call.resp.data.next_cursor
    /\ call.resp.data.next_cursor # EmptyStr

(***************************************************************************)
(* C18                                                                     *)
(***************************************************************************)
\* a step taken after loadCache has returned leaves the five parts of the
\* cache as they are and does not go back into loadCache
CacheKept ==
    BuildDone =>
        /\ UNCHANGED cacheVars
        /\ phase' \in {"loaded", "serving", "exited"}

\* C18: once the build is complete, no step (no tool call, on success or on
\* failure, no upstream answer, no resource read) changes channelsById,
\* channelsByName, usersById, usersByName or the workspace label, and the
\* build is never run again.
C18_CacheReadOnlyAfterBuild == [][CacheKept]_vars

\* the channels resource was read from a cache that holds a group direct
\* message and a channel, and returned the channel's row
C18_Witness ==
    /\ call.state = "done"
    /\ call.name = "resources/read"
    /\ call.args.uri = CHANNELS_URI
    /\ Len(channelsById) = 2
    /\ IsDirect(channelsById[1].v)
    /\ Len(call.result.rows) = 1

(***************************************************************************)
(* C19                                                                     *)
(***************************************************************************)
\* the type tokens a channels_list call asks for: those of the types
\* argument, those of the default when there is none
RequestedTypes(c) ==
    LET tokens == Split(OrElse(IF c.args.given THEN c.args.types ELSE Undefined,
                               DEFAULT_TYPES), ",")
    IN  {tokens[i] : i \in 1..Len(tokens)}

\* the type of the channel is among the requested ones
TypeRequested(c, channel) ==
    IF channel.is_private THEN PRIVATE_CHANNEL \in RequestedTypes(c)
    ELSE PUBLIC_CHANNEL \in RequestedTypes(c)

\* the cached channels the call may return, in the order of the cache
Listable(c) ==
    SelectSeq(MapValues(channelsById),
              LAMBDA channel : ~IsDirect(channel) /\ TypeRequested(c, channel))

\* the cache holds the public C1 and the private C2 and nothing else
CacheIsC1AndC2 ==
    /\ KeysOf(channelsById) = {C1, C2}
    /\ ~MapGet(channelsById, C1).is_private
    /\ MapGet(channelsById, C2).is_private

\* C19: the rows of channels_list are rows of cached channels whose type is
\* among the requested types (a non-private channel only with public_channel,
\* a private one only with private_channel, other tokens counting for
\* nothing), in the order of the cache; called with types=public_channel alone
\* on a cache of the public C1 and the private C2 it returns exactly one row,
\* the row of C1.
C19_ListFiltersByType ==
    (call.state = "done" /\ call.name = "channels_list") =>
        LET rows == call.result.rows
            listable == Listable(call)
        IN  /\ Len(rows) <= Len(listable)
            /\ \A i \in 1..Len(rows) : rows[i] = ChannelRow(listable[i])
            /\ (call.args.given /\ call.args.types = PUBLIC_CHANNEL
                  /\ call.args.limit = <<>> /\ CacheIsC1AndC2)
                  => (Len(rows) = 1 /\ rows[1].id = C1)

\* channels_list with types=public_channel returned the one row of C1 from a
\* cache that holds the private C2 before the public C1
C19_Witness ==
    /\ call.state = "done"
    /\ call.name = "channels_list"
    /\ call.args.given
    /\ call.args.types = PUBLIC_CHANNEL
    /\ call.args.limit = <<>>
    /\ CacheIsC1AndC2
    /\ channelsById[1].k = C2
    /\ Len(call.result.rows) = 1
    /\ call.result.rows[1].id = C1

(***************************************************************************)
(* C20                                                                     *)
(***************************************************************************)
\* what the call comes to when it runs alone, up to its await
AloneUpToAwait(c) ==
    Settle(c.name, c.args, NoReq, NoResp, CatchAtBoundary(HandlerStart(c.name, c.args)))

\* what the call comes to when it runs alone and its request is answered resp
AloneAfterAwait(c, resp) ==
    Settle(c.name, c.args, AloneUpToAwait(c).req, resp,
           CatchAtBoundary(HandlerResume(c.name, resp)))

\* the call is, at this point, what it is when it runs alone: the same
\* request, answered by one of the answers to that request, the same result
AsAlone(c) ==
    \/ c.state = "none"
    \/ c = AloneUpToAwait(c)
    \/ /\ c.state = "done"
       /\ AloneUpToAwait(c).state = "pending"
       /\ c.resp \in ResponsesTo(AloneUpToAwait(c).req)
       /\ c = AloneAfterAwait(c, c.resp)

\* C20: with two tool calls in flight, interleaved at their awaits in every
\* order, each call's request and result are those of the call run alone
\* with its own arguments, the cache and the answer to its own request, and
\* no call with a direct-message target has a request upstream.
C20_OverlappingCallsIndependent ==
    \A id \in RequestIds :
        /\ AsAlone(inflight[id])
        /\ (inflight[id].state # "none" /\ IsDmTarget(TargetOf(inflight[id])))
              => Rejected(inflight[id])

\* a post to C2 was answered while a post to C1, started before it, is still
\* suspended at its await
C20_Witness ==
    /\ inflight["a"].state = "pending"
    /\ inflight["a"].name = "conversations_add_message"
    /\ inflight["a"].req.params.channel = C1
    /\ inflight["b"].state = "done"
    /\ inflight["b"].name = "conversations_add_message"
    /\ inflight["b"].req # NoReq
    /\ inflight["b"].req.params.channel = C2
    /\ ~inflight["b"].result.isError

(***************************************************************************)
(* C21                                                                     *)
(***************************************************************************)
\* the standard reading of a quoted CSV field at the head of s: after the
\* opening quote, two quotes stand for one and a single quote closes the
\* field; `rest` is what follows the closing quote
RECURSIVE ScanQuoted(_, _)
ScanQuoted(s, value) ==
    IF s = <<>> THEN [ok |-> FALSE, value |-> value, rest |-> <<>>]
    ELSE IF Head(s) # "\"" THEN ScanQuoted(Tail(s), Append(value, Head(s)))
    ELSE IF Len(s) >= 2 /\ s[2] = "\""
         THEN ScanQuoted(SubSeq(s, 3, Len(s)), Append(value, "\""))
    ELSE [ok |-> TRUE, value |-> value, rest |-> Tail(s)]

ParseQuotedField(s) ==
    IF s = <<>> \/ Head(s) # "\"" THEN [ok |-> FALSE, value |-> <<>>, rest |-> s]
    ELSE ScanQuoted(Tail(s), <<>>)

\* the rendered field reads back as the text, alone and with the rest of
\* its line after it
ReadsBackAs(rendered, text) ==
    /\ ParseQuotedField(rendered) = [ok |-> TRUE, value |-> text, rest |-> <<>>]
    /\ ParseQuotedField(rendered \o <<",", "a">>) =
          [ok |-> TRUE, value |-> text, rest |-> <<",", "a">>]

\* C21: every topic and purpose in a row of channels_list and every message
\* text in a row of conversations_history or conversations_replies, whatever
\* string of letters, commas and double quotes it is, is rendered as a field
\* that reads back, by the quote-doubling rules, as exactly that string.
C21_FreeTextRoundTrip ==
    /\ (call.state = "done" /\ call.name = "channels_list") =>
          \A i \in 1..Len(call.result.rows) :
             LET channel == MapGet(channelsById, call.result.rows[i].id) IN
             /\ channel.topic # Undefined =>
                   ReadsBackAs(call.result.rows[i].topic, channel.topic)
             /\ channel.purpose # Undefined =>
                   ReadsBackAs(call.result.rows[i].purpose, channel.purpose)
    /\ (call.state = "done" /\ call.name \in MessageTools /\ ~call.result.isError) =>
          \A i \in 1..Len(call.result.rows) :
             LET m == MessagesOf(call.resp.data)[i] IN
             m.text # Undefined => ReadsBackAs(call.result.rows[i].text, m.text)

\* a message whose text is "a" between two double quotes was returned by
\* conversations_history as a field of seven characters
C21_Witness ==
    /\ call.state = "done"
    /\ call.name = "conversations_history"
    /\ ~call.result.isError
    /\ Len(call.result.rows) = 1
    /\ MessagesOf(call.resp.data)[1].text = <<"\"", "a", "\"">>
    /\ call.result.rows[1].text = <<"\"", "\"", "\"", "a", "\"", "\"", "\"">>

(***************************************************************************)
(* C22                                                                     *)
(***************************************************************************)
\* the ids of the listed accounts that are deleted or bots
ExcludedUserIds ==
    {remoteUsers[i].id : i \in (1..Len(remoteUsers)) \ KeptUserIndexes}

\* no entry of the table is an account with this id, under any key
AbsentFrom(table, id) ==
    \A i \in 1..Len(table) : table[i].k # id /\ table[i].v.id # id

\* the states of C22 after the build: the two tables
NoExcludedUserCached ==
    \A id \in ExcludedUserIds :
        /\ AbsentFrom(usersById, id)
        /\ AbsentFrom(usersByName, id)
        /\ GetUserName(id) = id

\* the states of C22 after a call: what the lookups gave
NoExcludedUserLookedUp ==
    /\ (call.state = "done" /\ call.name \in MessageTools /\ ~call.result.isError) =>
          \A i \in 1..Len(call.result.rows) :
             LET author == MessagesOf(call.resp.data)[i].user IN
             author \in ExcludedUserIds => call.result.rows[i].user = Quoted(author)
    /\ (call.name = "conversations_search" /\ call.req # NoReq
          /\ Falsy(call.args.channel) /\ call.args.from_user \in ExcludedUserIds) =>
          call.req.params.query =
             PlusEq(call.args.query, FROM_CLAUSE \o call.args.from_user)
    /\ (call.state = "done" /\ call.name = "resources/read"
          /\ call.args.uri = USERS_URI) =>
          \A i \in 1..Len(call.result.rows) :
             call.result.rows[i].id \notin ExcludedUserIds

====
